---- MODULE Spec2Model ----
(***************************************************************************)
(* Model of the speech-to-speech session core of ah_openai:                *)
(*   s2s/audio_pacer.py  AudioPacer (queue, timing state, pacing task)     *)
(*   s2s/handlers.py     handle_message / message_handler_loop             *)
(* asyncio is cooperative: code between two awaits that really suspend     *)
(* runs atomically, so an action is the code between two suspension        *)
(* points.  Awaiting a coroutine that never suspends (add_chunk, clear,    *)
(* start_pacing) does not yield to the event loop.                         *)
(*                                                                         *)
(* Time is time.perf_counter() counted in ticks of TickMs milliseconds;    *)
(* bytes/8000.0 seconds is bytes \div BytesPerTick ticks (frame lengths    *)
(* are multiples of BytesPerTick, so the division is exact).               *)
(***************************************************************************)
EXTENDS Integers, Sequences, FiniteSets, TLC

\* ---------------------------------------------------------------- bounds
MaxTime   == 4    \* the clock stops advancing here
MaxFrames == 3    \* add_chunk calls per behaviour
MaxStarts == 1    \* start_pacing calls on one pacer
MaxStops  == 2    \* stop() calls on one pacer
MaxConns  == 2    \* connections the application opens
MaxItems  == 1    \* function_call items per behaviour
MaxSends  == 1    \* send_message calls of the application
MaxChunks == 1    \* send_audio_chunk calls that reach the wire
MaxParts  == 2    \* content parts of one message
MaxLate   == 1    \* ticks a turn may start late, and the clock run past it
MaxShort  == 2    \* ticks during which calls and messages come
MaxTranscripts == 1  \* transcript events per behaviour
MaxPairFrames == 2   \* add_chunk calls while two sessions run

\* ------------------------------------------------------ program constants
ByteRate     == 8000                       \* bytes per second of playback
IdlePollMs   == 5                          \* asyncio.sleep(0.005)
TickMs       == IdlePollMs                 \* one tick of the model clock
BytesPerTick == (ByteRate * TickMs) \div 1000
IdlePoll     == IdlePollMs \div TickMs     \* the idle poll, in ticks
FrameLens    == {40, 80}                   \* 5 ms and 10 ms frames
SessionIds   == {"A", "B"}
None         == 0 - 1                      \* Python None for a time value

VARIABLES
    now,                        \* time.perf_counter()
    _audio_pacers,              \* handlers._audio_pacers: id -> AudioPacer
    _first_audio_delta_logged,  \* handlers._first_audio_delta_logged
    _last_ai_audio_done_time,   \* handlers._last_ai_audio_done_time
    mhl,                        \* position of message_handler_loop per id
    frames,                     \* history: the fate of every add_chunk call
    sinkLog,                    \* history: frame ids, as on_audio_chunk got them
    cur,                        \* history: the turn in progress per id
    stops,                      \* history: how each stop() call ended
    _sockets,                   \* connection._sockets: id -> connection
    _latency_trackers,          \* connection._latency_trackers: id -> tracker
    closing,                    \* close_connection calls awaiting ws.close()
    wire,                       \* history: the events written by ws.send
    sends,                      \* the send_message calls, each with its position
    fcLog,                      \* the handle_function_call calls, likewise
    stored,                     \* history: the last store_socket per id
    trLog,                      \* history: the transcript events handled
    ignored,                    \* history: the last event type ignored per id
    openai_sockets,             \* speech_to_speech.openai_sockets
    omLog                       \* the start_s2s.on_message calls

\* the session registry, the outbound encoder and the function calls
sessVars == <<_sockets, _latency_trackers, closing, wire, sends, fcLog, stored>>

\* what handle_transcript and the event types without a handler add
dispVars == <<trLog, ignored>>

\* the start_s2s service of speech_to_speech.py
s2sVars == <<openai_sockets, omLog>>

moreVars == <<dispVars, s2sVars>>

vars == <<now, _audio_pacers, _first_audio_delta_logged,
          _last_ai_audio_done_time, mhl, frames, sinkLog, cur, stops,
          _sockets, _latency_trackers, closing, wire, sends, fcLog, stored,
          trLog, ignored, openai_sockets, omLog>>

\* ------------------------------------------------------------ AudioPacer
\* a frame: len is len(audio_bytes); id, due and fresh are history: the
\* number of the add_chunk call that brought it, its playback instant
\* within its turn (the instant the turn's first frame was enqueued, plus
\* the bytes of the turn before it at ByteRate), and whether it is the
\* first frame enqueued after a clear()
NoChunk == [id |-> 0, len |-> 0, due |-> 0, fresh |-> FALSE]

\* asyncio.create_task(self._pace_loop()): scheduled, not yet run
\* chunk and ts are the loop's locals chunk and chunk_timestamp
NewTask == [pc |-> "ready", chunk |-> NoChunk, ts |-> None, wake |-> 0]

\* AudioPacer.__init__ ; tasks holds every task start_pacing created,
\* pacer_task is the index of the one the attribute refers to (0: None)
AudioPacer ==
    [buffer |-> <<>>, pacer_task |-> 0, _running |-> FALSE,
     start_time |-> None, bytes_sent |-> 0, audio_start_time |-> None,
     tasks |-> <<>>]

\* truth value of a float-or-None, as in `if self.audio_start_time:`
Truthy(x) == x /= None /\ x /= 0

\* bytes / 8000.0 seconds, in ticks
Secs(bytes) == bytes \div BytesPerTick

\* a faulty add_chunk: the frame is taken whether the pacer runs or not
add_chunk_always(p, chunk, t) ==
    [p EXCEPT !.buffer = Append(@, chunk),
              !.audio_start_time = IF @ = None THEN t ELSE @]

\* a faulty add_chunk: the instant of the first frame is not recorded
add_chunk_unstamped(p, chunk, t) ==
    IF p._running THEN [p EXCEPT !.buffer = Append(@, chunk)] ELSE p

add_chunk(p, chunk, t) ==
    IF p._running
    THEN [p EXCEPT !.buffer = Append(@, chunk),
                   !.audio_start_time = IF @ = None THEN t ELSE @]
    ELSE p

clear(p, t) ==
    [p EXCEPT !.buffer = <<>>, !.audio_start_time = None,
              !.bytes_sent = 0, !.start_time = t]

start_pacing(p, t) ==
    [p EXCEPT !._running = TRUE, !.start_time = t, !.bytes_sent = 0,
              !.tasks = Append(@, NewTask),
              !.pacer_task = Len(p.tasks) + 1]

TaskLive(task) == task.pc \in {"ready", "sink", "sleep", "idle"}

\* `await self.pacer_task` re-raises what the task ended with; only
\* CancelledError is caught
stop_raises(p) ==
    p.pacer_task /= 0 /\ p.tasks[p.pacer_task].pc = "failed"

\* stop(): the awaited task cannot run any of its own code once cancelled,
\* so cancel-and-await is one step
stop(p) ==
    LET q == [p EXCEPT !._running = FALSE] IN
    IF q.pacer_task = 0 THEN [q EXCEPT !.buffer = <<>>]
    ELSE IF stop_raises(q) THEN q
    ELSE [q EXCEPT !.buffer = <<>>,
                   !.tasks[q.pacer_task] =
                       IF TaskLive(@)
                       THEN [@ EXCEPT !.pc = "cancelled"]
                       ELSE @]

\* ------------------------------------------------ AudioPacer._pace_loop
\* a faulty dequeue: deque.pop(), the newest frame, not deque.popleft()
pop(buffer) == buffer[Len(buffer)]

popleft(buffer) == Head(buffer)

\* timestamp handed to the sink for the chunk being sent (lines 86-94)
chunk_timestamp(p) ==
    IF Truthy(p.audio_start_time)
    THEN p.audio_start_time + Secs(p.bytes_sent)
    ELSE None

\* top of `while self._running:` for task k, up to its next suspension:
\* exit, hand the head frame to the sink, or start the idle poll
LoopHead(p, k, t) ==
    IF ~p._running
    THEN [p EXCEPT !.tasks[k].pc = "exited"]
    ELSE IF Len(p.buffer) > 0
    THEN [p EXCEPT !.buffer = Tail(@),
                   !.tasks[k] = [pc |-> "sink", chunk |-> popleft(p.buffer),
                                 ts |-> chunk_timestamp(p), wake |-> 0]]
    ELSE [p EXCEPT !.tasks[k] = [pc |-> "idle", chunk |-> NoChunk,
                                 ts |-> None, wake |-> t + IdlePoll]]

\* a faulty pacing target: the bytes sent are left out
target_time_unpaced(p) == p.start_time

\* self.bytes_sent += len(chunk)
count_sent(p, k) == [p EXCEPT !.bytes_sent = @ + p.tasks[k].chunk.len]

\* target_time = self.start_time + (self.bytes_sent / 8000.0) * playback_rate
target_time(p) == p.start_time + Secs(p.bytes_sent)

\* a faulty pacing step: a sleep of the frame's own length after each frame
sleep_per_frame(p, k, t) ==
    [count_sent(p, k) EXCEPT
        !.tasks[k] = [pc |-> "sleep", chunk |-> NoChunk, ts |-> None,
                      wake |-> t + Secs(p.tasks[k].chunk.len)]]

\* after the sink returned (lines 96-110): count the bytes, then sleep to
\* the target if it is in the future, else go straight round the loop
AfterSink(p, k, t) ==
    LET q == count_sent(p, k) IN
    IF target_time(q) - t > 0
    THEN [q EXCEPT !.tasks[k] = [pc |-> "sleep", chunk |-> NoChunk,
                                 ts |-> None, wake |-> target_time(q)]]
    ELSE LoopHead(q, k, t)

\* history: the sink invocations a loop step made (none or one)
Invoked(s, p, q, k) ==
    IF q.tasks[k].pc = "sink" /\ (p.tasks[k].pc /= "sink"
                                  \/ p.tasks[k].chunk /= q.tasks[k].chunk)
    THEN <<q.tasks[k].chunk.id>>
    ELSE <<>>

EmptyMap == [x \in {} |-> 0]

Put(f, s, v) == [x \in DOMAIN f \cup {s} |-> IF x = s THEN v ELSE f[x]]

\* a faulty del: the whole map is emptied
DelAll(f, s) == EmptyMap

Del(f, s) == [x \in DOMAIN f \ {s} |-> f[x]]

Registered(s) == s \in DOMAIN _audio_pacers

LoopStep(s, k, q) ==
    /\ _audio_pacers' = Put(_audio_pacers, s, q)
    /\ sinkLog' = sinkLog \o Invoked(s, _audio_pacers[s], q, k)
    /\ UNCHANGED <<now, _first_audio_delta_logged, _last_ai_audio_done_time,
                   mhl, frames, cur, stops>>
    /\ UNCHANGED sessVars
    /\ UNCHANGED moreVars

\* first run of a task created by start_pacing
TaskStart ==
    \E s \in SessionIds : Registered(s) /\
    \E k \in 1..Len(_audio_pacers[s].tasks) :
        /\ _audio_pacers[s].tasks[k].pc = "ready"
        /\ LoopStep(s, k, LoopHead(_audio_pacers[s], k, now))

\* asyncio.sleep returns: never before the requested time, possibly later
Wake ==
    \E s \in SessionIds : Registered(s) /\
    \E k \in 1..Len(_audio_pacers[s].tasks) :
        /\ _audio_pacers[s].tasks[k].pc \in {"sleep", "idle"}
        /\ now >= _audio_pacers[s].tasks[k].wake
        /\ LoopStep(s, k, LoopHead(_audio_pacers[s], k, now))

\* on_audio_chunk returns
SinkReturn ==
    \E s \in SessionIds : Registered(s) /\
    \E k \in 1..Len(_audio_pacers[s].tasks) :
        /\ _audio_pacers[s].tasks[k].pc = "sink"
        /\ LoopStep(s, k, AfterSink(_audio_pacers[s], k, now))

\* on_audio_chunk raises: nothing in _pace_loop catches it, the task ends
\* with that exception
SinkRaise ==
    \E s \in SessionIds : Registered(s) /\
    \E k \in 1..Len(_audio_pacers[s].tasks) :
        /\ _audio_pacers[s].tasks[k].pc = "sink"
        /\ LoopStep(s, k, [_audio_pacers[s] EXCEPT !.tasks[k].pc = "failed"])

Tick ==
    /\ now < MaxTime
    /\ now' = now + 1
    /\ UNCHANGED <<_audio_pacers, _first_audio_delta_logged,
                   _last_ai_audio_done_time, mhl, frames, sinkLog, cur, stops>>
    /\ UNCHANGED sessVars
    /\ UNCHANGED moreVars

\* some pacing loop is waiting for a later instant with work to do then
Waiting ==
    \E s \in DOMAIN _audio_pacers :
        \E k \in 1..Len(_audio_pacers[s].tasks) :
            LET task == _audio_pacers[s].tasks[k] IN
            /\ task.wake > now
            /\ \/ task.pc = "sleep"
               \/ task.pc = "idle" /\ _audio_pacers[s].buffer /= <<>>

\* the clock while queues drain: messages come during the first MaxShort
\* ticks, and time goes on for as long as a loop waits for it
TickDrain ==
    /\ now < MaxShort \/ Waiting
    /\ now' = now + 1
    /\ UNCHANGED <<_audio_pacers, _first_audio_delta_logged,
                   _last_ai_audio_done_time, mhl, frames, sinkLog, cur, stops>>
    /\ UNCHANGED sessVars
    /\ UNCHANGED moreVars

\* the clock while a pacer is started, stopped and started again
TickShort ==
    /\ now < MaxShort
    /\ now' = now + 1
    /\ UNCHANGED <<_audio_pacers, _first_audio_delta_logged,
                   _last_ai_audio_done_time, mhl, frames, sinkLog, cur, stops>>
    /\ UNCHANGED sessVars
    /\ UNCHANGED moreVars

\* ------------------------------------------------------------- handlers
\* a faulty message loop: a message is handled while the handling of
\* the one before it is suspended in a callback
handled_as_task(s) == mhl[s] \notin {"none", "done", "crashed"}

\* message_handler_loop awaits handle_message (line 191): the next message
\* is taken from the connection only when the handling of the last is over
Receiving(s) == mhl[s] = "recv"

\* history: no frame of the next turn has been enqueued yet; cleared says
\* that the pacer was cleared and has been given no frame since
NoTurn(cleared) == [due |-> None, cleared |-> cleared]

\* the frame a message or call brings at this instant
Frame(s, len) ==
    [id |-> Len(frames) + 1, len |-> len,
     due |-> IF cur[s].due = None THEN now ELSE cur[s].due,
     fresh |-> cur[s].cleared]

\* history: one add_chunk call on pacer p
Call(s, p) == [sid |-> s, accepted |-> p._running, cut |-> FALSE]

\* history: the turn in progress after add_chunk(chunk) on pacer p
Grown(s, chunk, p) ==
    IF ~p._running THEN cur[s]
    ELSE [due |-> chunk.due + Secs(chunk.len), cleared |-> FALSE]

\* history: the frames of a buffer that is being discarded are marked cut
Cut(buffer) ==
    [i \in 1..Len(frames) |->
        IF \E j \in 1..Len(buffer) : buffer[j].id = i
        THEN [frames[i] EXCEPT !.cut = TRUE] ELSE frames[i]]

\* handle_audio_delta, lines 56-61: the pacer the frame is added to
\* a faulty handle_audio_delta: a registered pacer is started again
restarted_for_delta(s, t) ==
    start_pacing(IF Registered(s) THEN _audio_pacers[s] ELSE AudioPacer, t)

pacer_for_delta(s, t) ==
    IF Registered(s) THEN _audio_pacers[s] ELSE start_pacing(AudioPacer, t)

\* response.output_audio.delta with a decodable payload of len bytes
\* (play_local is off, on_audio_chunk and context are given)
AudioDelta(s, len) ==
        /\ Receiving(s) /\ Len(frames) < MaxFrames
        /\ LET p     == pacer_for_delta(s, now)
               chunk == Frame(s, len)
           IN /\ _audio_pacers' = Put(_audio_pacers, s, add_chunk(p, chunk, now))
              /\ frames' = Append(frames, Call(s, p))
              /\ cur' = [cur EXCEPT ![s] = Grown(s, chunk, p)]
        /\ _first_audio_delta_logged' = Put(_first_audio_delta_logged, s, TRUE)
        /\ UNCHANGED <<now, _last_ai_audio_done_time, mhl, sinkLog, stops>>
        /\ UNCHANGED sessVars
        /\ UNCHANGED moreVars

HandleAudioDelta ==
    \E s \in SessionIds, len \in FrameLens : AudioDelta(s, len)

\* an audio delta with one tick of audio
HandleTickDelta == \E s \in SessionIds : AudioDelta(s, BytesPerTick)

\* the audio deltas of two sessions that run side by side
HandlePairDelta == Len(frames) < MaxPairFrames /\ HandleTickDelta

\* one turn of MaxFrames frames of 20 ms (160 bytes at ByteRate), its
\* audio deltas all received at one instant
TurnFrameLen == (ByteRate * 20) \div 1000

\* the playback length of the whole turn, in ticks
TurnTicks == MaxFrames * Secs(TurnFrameLen)

HandleTurnDelta ==
    /\ Registered("A") => now = _audio_pacers["A"].audio_start_time
    /\ AudioDelta("A", TurnFrameLen)

\* the clock of that turn: it runs MaxLate ticks past the latest end
TickTurn ==
    /\ now < (IF Registered("A") THEN _audio_pacers["A"].audio_start_time
                                ELSE 1 + MaxLate) + TurnTicks + MaxLate
    /\ ~Registered("A") => now < 1 + MaxLate
    /\ now' = now + 1
    /\ UNCHANGED <<_audio_pacers, _first_audio_delta_logged,
                   _last_ai_audio_done_time, mhl, frames, sinkLog, cur, stops>>
    /\ UNCHANGED sessVars
    /\ UNCHANGED moreVars

\* response.output_audio.done, lines 133-144.  AudioPacer has no
\* mark_response_done: for a registered pacer the call raises
\* AttributeError, which handle_message catches; the pacer is untouched
\* a faulty audio.done: the pacer is cleared
cleared_on_done(p, t) == clear(p, t)

\* what `_audio_pacers[id].mark_response_done()` (line 144) does to a
\* registered pacer: nothing, the attribute lookup raises
on_audio_done(p, t) == p

AudioDone(s) ==
        /\ Receiving(s)
        /\ _first_audio_delta_logged' =
               IF s \in DOMAIN _first_audio_delta_logged
               THEN Put(_first_audio_delta_logged, s, FALSE)
               ELSE _first_audio_delta_logged
        /\ _last_ai_audio_done_time' = Put(_last_ai_audio_done_time, s, now)
        /\ _audio_pacers' =
               IF Registered(s)
               THEN Put(_audio_pacers, s, on_audio_done(_audio_pacers[s], now))
               ELSE _audio_pacers
        /\ cur' = [cur EXCEPT ![s] = NoTurn(cur[s].cleared)]
        /\ UNCHANGED <<now, mhl, frames, sinkLog, stops>>
        /\ UNCHANGED sessVars
        /\ UNCHANGED moreVars

HandleAudioDone == \E s \in SessionIds : AudioDone(s)

\* input_audio_buffer.speech_started, lines 162-165: what is done to a
\* registered pacer
\* a faulty speech_started: the pacer is not cleared
not_cleared(p, t) == p

\* a faulty speech_started: the pacer is stopped, not cleared
stopped_not_cleared(p, t) == stop(p)

on_speech_started(p, t) == clear(p, t)

\* where handle_message is once the pacer is dealt with: suspended in
\* `await on_interrupt(server_event)` (line 166)
after_speech_started == "on_interrupt"

\* input_audio_buffer.speech_started up to `await on_interrupt(...)`:
\* nothing before that await suspends
SpeechStarted(s) ==
        /\ Receiving(s)
        /\ IF Registered(s)
           THEN /\ _audio_pacers' =
                       Put(_audio_pacers, s,
                           on_speech_started(_audio_pacers[s], now))
                /\ frames' = Cut(_audio_pacers[s].buffer)
                /\ cur' = [cur EXCEPT ![s] = NoTurn(TRUE)]
           ELSE /\ cur' = [cur EXCEPT ![s] = NoTurn(FALSE)]
                /\ UNCHANGED <<_audio_pacers, frames>>
        /\ mhl' = [mhl EXCEPT ![s] = after_speech_started]
        /\ UNCHANGED <<now, _first_audio_delta_logged,
                       _last_ai_audio_done_time, sinkLog, stops>>
        /\ UNCHANGED sessVars
        /\ UNCHANGED moreVars

HandleSpeechStarted == \E s \in SessionIds : SpeechStarted(s)

\* on_interrupt returns, or raises and handle_message catches it
InterruptDone ==
    \E s \in SessionIds :
        /\ mhl[s] = "on_interrupt"
        /\ mhl' = [mhl EXCEPT ![s] = "recv"]
        /\ UNCHANGED <<now, _audio_pacers, _first_audio_delta_logged,
                       _last_ai_audio_done_time, frames, sinkLog, cur, stops>>
        /\ UNCHANGED sessVars
        /\ UNCHANGED moreVars

\* a message handle_message does nothing with but log: speech_stopped,
\* response.created, response.output_audio.started, an unrecognized type;
\* or one whose handling raises inside handle_message and is caught there:
\* valid JSON without 'type', an audio delta without 'delta'
HandleIgnored ==
    \E s \in SessionIds :
        /\ Receiving(s)
        /\ UNCHANGED <<now, _audio_pacers, _first_audio_delta_logged,
                       _last_ai_audio_done_time, mhl, frames, sinkLog, cur, stops>>
        /\ UNCHANGED sessVars
        /\ UNCHANGED moreVars

\* history: one stop() call on pacer p: whether it raised, what it left
\* in the queue, how many frames the sink had been handed by then, and how
\* many start_pacing calls came before it
Stopped(p) ==
    [raised |-> stop_raises(p), left |-> Len(stop(p).buffer),
     handed |-> Len(sinkLog), starts |-> Len(p.tasks)]

\* history: the frames a call that leaves pacer q took out of p's queue
Discarded(p, q) == IF q.buffer = <<>> THEN p.buffer ELSE <<>>

\* the finally block of message_handler_loop, lines 199-203: stop() is
\* awaited first; if it raises, the del is not reached and the exception
\* leaves message_handler_loop
Cleanup(s) ==
    IF Registered(s)
    THEN /\ IF stop_raises(_audio_pacers[s])
            THEN /\ _audio_pacers' = Put(_audio_pacers, s, stop(_audio_pacers[s]))
                 /\ mhl' = [mhl EXCEPT ![s] = "crashed"]
            ELSE /\ _audio_pacers' = Del(_audio_pacers, s)
                 /\ mhl' = [mhl EXCEPT ![s] = "done"]
         /\ frames' = Cut(Discarded(_audio_pacers[s], stop(_audio_pacers[s])))
         /\ stops' = Append(stops, Stopped(_audio_pacers[s]))
    ELSE /\ mhl' = [mhl EXCEPT ![s] = "done"]
         /\ UNCHANGED <<_audio_pacers, frames, stops>>

\* where a message that is not valid JSON takes message_handler_loop:
\* json.loads (line 190) is inside the try that encloses the whole
\* `async for`, so the except clause of line 196 ends the loop
after_bad_json(s) == Cleanup(s)

\* a message that is not valid JSON
BadJson(s) ==
        /\ Receiving(s)
        /\ after_bad_json(s)
        /\ UNCHANGED <<now, _first_audio_delta_logged,
                       _last_ai_audio_done_time, sinkLog, cur>>
        /\ UNCHANGED sessVars
        /\ UNCHANGED moreVars

HandleBadJson == \E s \in SessionIds : BadJson(s)

\* the stream ends or the connection closes (ConnectionClosed)
StreamEnd(s) ==
        /\ Receiving(s)
        /\ Cleanup(s)
        /\ UNCHANGED <<now, _first_audio_delta_logged,
                       _last_ai_audio_done_time, sinkLog, cur>>
        /\ UNCHANGED sessVars
        /\ UNCHANGED moreVars

HandleClosed == \E s \in SessionIds : StreamEnd(s)

\* ------------------------------------------- AudioPacer, called directly
\* In SpecPacer no message_handler_loop runs; one AudioPacer, kept at key
\* "A" of the pacer table, is driven through its methods by one caller that
\* awaits each call.
Direct(s) == mhl[s] = "none" /\ Registered(s)

\* await pacer.start_pacing(sink, context); no restart after a stop()
ApiStartPacing ==
    \E s \in SessionIds :
        /\ Direct(s) /\ stops = <<>>
        /\ Len(_audio_pacers[s].tasks) < MaxStarts
        /\ _audio_pacers' = Put(_audio_pacers, s,
                                start_pacing(_audio_pacers[s], now))
        /\ UNCHANGED <<now, _first_audio_delta_logged,
                       _last_ai_audio_done_time, mhl, frames, sinkLog, cur,
                       stops>>
        /\ UNCHANGED sessVars
        /\ UNCHANGED moreVars

\* await pacer.start_pacing(sink, context) once more on a pacer that was
\* started before, whether it is still running or was stopped since
ApiStartPacingAgain ==
    \E s \in SessionIds :
        /\ Direct(s)
        /\ Len(_audio_pacers[s].tasks) >= 1
        /\ Len(_audio_pacers[s].tasks) <= MaxStarts
        /\ _audio_pacers' = Put(_audio_pacers, s,
                                start_pacing(_audio_pacers[s], now))
        /\ UNCHANGED <<now, _first_audio_delta_logged,
                       _last_ai_audio_done_time, mhl, frames, sinkLog, cur,
                       stops>>
        /\ UNCHANGED sessVars
        /\ UNCHANGED moreVars

\* await pacer.add_chunk(audio_bytes), audio_bytes of len bytes
AddChunk(s, len) ==
        /\ Direct(s) /\ Len(frames) < MaxFrames
        /\ LET p     == _audio_pacers[s]
               chunk == Frame(s, len)
           IN /\ _audio_pacers' = Put(_audio_pacers, s, add_chunk(p, chunk, now))
              /\ frames' = Append(frames, Call(s, p))
              /\ cur' = [cur EXCEPT ![s] = Grown(s, chunk, p)]
        /\ UNCHANGED <<now, _first_audio_delta_logged,
                       _last_ai_audio_done_time, mhl, sinkLog, stops>>
        /\ UNCHANGED sessVars
        /\ UNCHANGED moreVars

ApiAddChunk == \E s \in SessionIds, len \in FrameLens : AddChunk(s, len)

\* the same with frames of one length: one tick of audio
ApiAddTickChunk == \E s \in SessionIds : AddChunk(s, BytesPerTick)

\* await pacer.clear()
ApiClear ==
    \E s \in SessionIds :
        /\ Direct(s)
        /\ _audio_pacers' = Put(_audio_pacers, s, clear(_audio_pacers[s], now))
        /\ frames' = Cut(_audio_pacers[s].buffer)
        /\ cur' = [cur EXCEPT ![s] = NoTurn(TRUE)]
        /\ UNCHANGED <<now, _first_audio_delta_logged,
                       _last_ai_audio_done_time, mhl, sinkLog, stops>>
        /\ UNCHANGED sessVars
        /\ UNCHANGED moreVars

\* await pacer.stop(), whether it returns or raises
ApiStop ==
    \E s \in SessionIds :
        /\ Direct(s) /\ Len(stops) < MaxStops
        /\ _audio_pacers' = Put(_audio_pacers, s, stop(_audio_pacers[s]))
        /\ frames' = Cut(Discarded(_audio_pacers[s], stop(_audio_pacers[s])))
        /\ stops' = Append(stops, Stopped(_audio_pacers[s]))
        /\ UNCHANGED <<now, _first_audio_delta_logged,
                       _last_ai_audio_done_time, mhl, sinkLog, cur>>
        /\ UNCHANGED sessVars
        /\ UNCHANGED moreVars

\* ------------------------------------------------ connection registry
\* the state the handlers leave alone
pacerVars == <<now, _audio_pacers, _first_audio_delta_logged,
               _last_ai_audio_done_time, frames, sinkLog, cur, stops>>

\* a connection (the ws object) is a number from 1; 0 stands for None
Conns == 1..MaxConns

\* _sockets[log_id] = ws
store_socket(socks, log_id, ws) == Put(socks, log_id, ws)

\* ws = _sockets.get(log_id); if not ws: raise Exception("No active ...")
get_socket(socks, log_id) ==
    IF log_id \in DOMAIN socks /\ socks[log_id] /= 0
    THEN [raised |-> FALSE, ws |-> socks[log_id]]
    ELSE [raised |-> TRUE, ws |-> 0]

\* the two module maps remove_socket works on
Registry == [_sockets |-> _sockets, _latency_trackers |-> _latency_trackers]

\* a faulty remove_socket: both maps are emptied
remove_every_socket(r, log_id) ==
    [_sockets |-> EmptyMap, _latency_trackers |-> EmptyMap]

remove_socket(r, log_id) ==
    [_sockets |-> IF log_id \in DOMAIN r._sockets
                  THEN Del(r._sockets, log_id) ELSE r._sockets,
     _latency_trackers |-> IF log_id \in DOMAIN r._latency_trackers
                           THEN Del(r._latency_trackers, log_id)
                           ELSE r._latency_trackers]

\* history: the entry of log_id was removed
Forget(log_id) == [stored EXCEPT ![log_id] = 0]

\* store_socket(log_id, ws) called by the application
StoreSocket(s, ws) ==
        /\ _sockets' = store_socket(_sockets, s, ws)
        /\ stored' = [stored EXCEPT ![s] = ws]
        /\ UNCHANGED <<_latency_trackers, closing, wire, sends, fcLog, mhl>>
        /\ UNCHANGED pacerVars
        /\ UNCHANGED moreVars

ApiStoreSocket == \E s \in SessionIds, ws \in Conns : StoreSocket(s, ws)

\* each session stores the one connection it opened
ApiStoreOwnSocket == \E s \in SessionIds : StoreSocket(s, 1)

\* the same for the sessions whose message_handler_loop was started
ApiStoreSessionSocket ==
    \E s \in SessionIds, ws \in Conns : mhl[s] /= "none" /\ StoreSocket(s, ws)

\* remove_socket(log_id) called by the application
RemoveSocket(s) ==
        /\ _sockets' = remove_socket(Registry, s)._sockets
        /\ _latency_trackers' = remove_socket(Registry, s)._latency_trackers
        /\ stored' = Forget(s)
        /\ UNCHANGED <<closing, wire, sends, fcLog, mhl>>
        /\ UNCHANGED pacerVars
        /\ UNCHANGED moreVars

ApiRemoveSocket == \E s \in SessionIds : RemoveSocket(s)

\* the same for the sessions whose message_handler_loop was started
ApiRemoveSessionSocket ==
    \E s \in SessionIds : mhl[s] /= "none" /\ RemoveSocket(s)

\* close_connection(log_id) up to `await ws.close()`; with no connection
\* stored for log_id it returns at once
CloseConnection(s) ==
        /\ s \notin closing
        /\ closing' = IF get_socket(_sockets, s).raised
                      THEN closing ELSE closing \cup {s}
        /\ UNCHANGED <<_sockets, _latency_trackers, wire, sends, fcLog,
                       stored, mhl>>
        /\ UNCHANGED pacerVars
        /\ UNCHANGED moreVars

ApiCloseConnection == \E s \in SessionIds : CloseConnection(s)

\* ws.close() returns: remove_socket(log_id), whatever is stored by now
Closed(s) ==
        /\ s \in closing
        /\ closing' = closing \ {s}
        /\ _sockets' = remove_socket(Registry, s)._sockets
        /\ _latency_trackers' = remove_socket(Registry, s)._latency_trackers
        /\ stored' = Forget(s)
        /\ UNCHANGED <<wire, sends, fcLog, mhl>>
        /\ UNCHANGED pacerVars
        /\ UNCHANGED moreVars

CloseDone == \E s \in SessionIds : Closed(s)

\* ---------------------------------------------------- outbound encoder
\* a content part of a message: item['type'], item['text']
Text(t) == [type |-> "text", text |-> t]

ContentParts == {Text("t1"), Text("t2"), [type |-> "image", text |-> ""]}

\* message['content']: up to MaxParts parts
Contents ==
    UNION {[1..n -> ContentParts] : n \in 0..MaxParts}

\* the message dicts callers pass, with 'role' and 'content': any content
\* with role "user", and the contents of at most one part with the
\* other roles
Messages ==
    {[role |-> "user", content |-> c] : c \in Contents}
    \cup {[role |-> r, content |-> c] :
              r \in {"assistant", "system"},
              c \in {x \in Contents : Len(x) <= 1}}

\* a faulty send_message: a part that is not text is left out
RECURSIVE skip_unsupported(_, _, _)
skip_unsupported(content, i, parts) ==
    IF i > Len(content) THEN [raised |-> FALSE, parts |-> parts]
    ELSE IF content[i].type = "text"
    THEN skip_unsupported(content, i + 1,
             Append(parts, [type |-> "input_text", text |-> content[i].text]))
    ELSE skip_unsupported(content, i + 1, parts)

\* send_message, lines 172-180: the loop over message['content'] from
\* item i on, with the parts built so far
RECURSIVE build_parts(_, _, _)
build_parts(content, i, parts) ==
    IF i > Len(content) THEN [raised |-> FALSE, parts |-> parts]
    ELSE IF content[i].type = "text"
    THEN build_parts(content, i + 1,
             Append(parts, [type |-> "input_text", text |-> content[i].text]))
    ELSE [raised |-> TRUE, parts |-> <<>>]

\* a send_message call by `by` (a session's handler, or "app") on ws, up
\* to its first suspension: it raised, or it is in `await ws.send(event)`
\* of the conversation.item.create event
\* role and content are the message the caller passed
send_message(by, ws, message) ==
    LET b == build_parts(message.content, 1, <<>>) IN
    [by |-> by, ws |-> ws, role |-> message.role,
     content |-> message.content, parts |-> b.parts,
     pc |-> IF b.raised THEN "raised" ELSE "create"]

\* a faulty encoder: the event carries the role of the message
WireEventOwnRole(k) ==
    IF sends[k].pc = "create"
    THEN [ws |-> sends[k].ws, type |-> "conversation.item.create",
          role |-> sends[k].role, content |-> sends[k].parts, by |-> k]
    ELSE [ws |-> sends[k].ws, type |-> "response.create",
          role |-> "", content |-> <<>>, by |-> k]

\* the event a send_message call is writing
WireEvent(k) ==
    IF sends[k].pc = "create"
    THEN [ws |-> sends[k].ws, type |-> "conversation.item.create",
          role |-> "user", content |-> sends[k].parts, by |-> k]
    ELSE [ws |-> sends[k].ws, type |-> "response.create",
          role |-> "", content |-> <<>>, by |-> k]

\* where message_handler_loop of the caller is once its send_message
\* call is over: handle_function_call returns, the next event is awaited
Resumed(by) ==
    IF by \in SessionIds THEN [mhl EXCEPT ![by] = "recv"] ELSE mhl

AppSends == {k \in 1..Len(sends) : sends[k].by = "app"}

\* send_message(ws, message, context) called by the application, which
\* awaits each of its calls, with the connection of a registered session
ApiSendMessage ==
    \E s \in SessionIds, message \in Messages :
        /\ ~get_socket(_sockets, s).raised
        /\ Cardinality(AppSends) < MaxSends
        /\ \A k \in AppSends : sends[k].pc \in {"returned", "raised"}
        /\ sends' = Append(sends,
                        send_message("app", get_socket(_sockets, s).ws, message))
        /\ UNCHANGED <<_sockets, _latency_trackers, closing, wire, fcLog,
                       stored, mhl>>
        /\ UNCHANGED pacerVars
        /\ UNCHANGED moreVars

\* `await ws.send(...)` of a send_message call returns: the event is on
\* the wire
SendReturn ==
    \E k \in 1..Len(sends) :
        /\ sends[k].pc \in {"create", "response"}
        /\ wire' = Append(wire, WireEvent(k))
        /\ sends' = [sends EXCEPT ![k].pc =
                        IF @ = "create" THEN "response" ELSE "returned"]
        /\ mhl' = IF sends[k].pc = "response" THEN Resumed(sends[k].by) ELSE mhl
        /\ UNCHANGED <<_sockets, _latency_trackers, closing, fcLog, stored>>
        /\ UNCHANGED pacerVars
        /\ UNCHANGED moreVars

\* `await ws.send(...)` of a send_message call raises (the connection is
\* gone): nothing is written, the exception leaves send_message
SendFail ==
    \E k \in 1..Len(sends) :
        /\ sends[k].pc \in {"create", "response"}
        /\ sends' = [sends EXCEPT ![k].pc = "raised"]
        /\ mhl' = Resumed(sends[k].by)
        /\ UNCHANGED <<_sockets, _latency_trackers, closing, wire, fcLog,
                       stored>>
        /\ UNCHANGED pacerVars
        /\ UNCHANGED moreVars

AudioEvents == {j \in 1..Len(wire) : wire[j].type = "input_audio_buffer.append"}

\* send_audio_chunk(ws, audio_bytes, context): the session's tracker is
\* created if missing; ws.send writes the event and the tracker records
\* the chunk, or ws.send raises
ApiSendAudioChunk ==
    \E s \in SessionIds, ws \in Conns, sent \in BOOLEAN :
        /\ Cardinality(AudioEvents) < MaxChunks
        /\ LET n == IF s \in DOMAIN _latency_trackers
                    THEN _latency_trackers[s] ELSE 0
           IN _latency_trackers' =
                  Put(_latency_trackers, s, IF sent THEN n + 1 ELSE n)
        /\ wire' = IF sent
                   THEN Append(wire, [ws |-> ws,
                                      type |-> "input_audio_buffer.append",
                                      role |-> "", content |-> <<>>, by |-> 0])
                   ELSE wire
        /\ UNCHANGED <<_sockets, closing, sends, fcLog, stored, mhl>>
        /\ UNCHANGED pacerVars
        /\ UNCHANGED moreVars

\* ------------------------------------------------ handle_function_call
\* a command object handed to on_command
Cmd(n, a) == [name |-> n, args |-> a]

Cmds == {Cmd("c1", "x"), Cmd("c2", "y")}

\* the item of a conversation.item.done event of type function_call:
\*   name       item['name']
\*   arguments  item['arguments']: "bad" is not JSON, "object" is a JSON
\*              object
\*   text       arguments['text'] of an "output" call: "absent" is no such
\*              key, "bad" is not JSON, "array" a JSON array, "object" a
\*              single JSON object
\*   cmds       what the text holds: the elements of the array, or the
\*              one object
Item(n, a, t, c) == [name |-> n, arguments |-> a, text |-> t, cmds |-> c]

FunctionCalls ==
    {Item("c1", a, "absent", <<>>) : a \in {"bad", "object"}}
    \cup {Item("output", "bad", "absent", <<>>)}
    \cup {Item("output", "object", t, <<>>) : t \in {"absent", "bad"}}
    \cup {Item("output", "object", "array", c) :
             c \in {<<>>, <<Cmd("c1", "x")>>,
                    <<Cmd("c1", "x"), Cmd("c2", "y")>>,
                    <<Cmd("c2", "y"), Cmd("c1", "x")>>}}
    \cup {Item("output", "object", "object", <<c>>) : c \in Cmds}

\* json.loads(x) raises
json_raises(x) == x = "bad"

\* a faulty handler: of a list of commands only the first is invoked
first_only(item) ==
    IF json_raises(item.arguments) THEN [raised |-> TRUE, cmds |-> <<>>]
    ELSE IF item.name /= "output"
    THEN [raised |-> FALSE, cmds |-> <<Cmd(item.name, "args")>>]
    ELSE IF item.text = "absent" \/ json_raises(item.text)
    THEN [raised |-> TRUE, cmds |-> <<>>]
    ELSE [raised |-> FALSE,
          cmds |-> IF item.cmds = <<>> THEN <<>> ELSE <<item.cmds[1]>>]

\* lines 69-84 without the awaits: the commands the try block hands to
\* on_command, in order, or the exception raised before the first
commands(item) ==
    IF json_raises(item.arguments) THEN [raised |-> TRUE, cmds |-> <<>>]
    ELSE IF item.name /= "output"
    THEN [raised |-> FALSE, cmds |-> <<Cmd(item.name, "args")>>]
    ELSE IF item.text = "absent" \/ json_raises(item.text)
    THEN [raised |-> TRUE, cmds |-> <<>>]
    ELSE IF item.text = "array"
    THEN [raised |-> FALSE, cmds |-> item.cmds]
    ELSE [raised |-> FALSE, cmds |-> <<item.cmds[1]>>]

\* error_msg['content'], line 91
ErrorContent == <<Text("[SYSTEM: Error executing command]")>>

\* a faulty handler: the error is not reported
unreported(s, call) ==
    /\ fcLog' = call
    /\ mhl' = [mhl EXCEPT ![s] = "recv"]
    /\ UNCHANGED sends

\* a faulty report: the error message is sent once per command of the item
reported_per_command(s, call) ==
    LET r == get_socket(_sockets, s)
        m == send_message(s, r.ws, [role |-> "user",
                                   content |-> ErrorContent])
    IN IF r.raised
       THEN /\ fcLog' = call
            /\ mhl' = [mhl EXCEPT ![s] = "recv"]
            /\ UNCHANGED sends
       ELSE /\ fcLog' = [call EXCEPT ![Len(call)].send = Len(sends) + 1]
            /\ sends' = sends \o [n \in 1..(1 + Len(call[Len(call)].item.cmds))
                                     |-> m]
            /\ mhl' = [mhl EXCEPT ![s] =
                          IF m.pc = "raised" THEN "recv" ELSE "send_message"]

\* the except branch, lines 85-95, for the call of session s whose record
\* becomes call: get_socket raises and that is logged, or send_message is
\* awaited
report(s, call) ==
    LET r == get_socket(_sockets, s)
        m == send_message(s, r.ws, [role |-> "user",
                                   content |-> ErrorContent])
    IN IF r.raised
       THEN /\ fcLog' = call
            /\ mhl' = [mhl EXCEPT ![s] = "recv"]
            /\ UNCHANGED sends
       ELSE /\ fcLog' = [call EXCEPT ![Len(call)].send = Len(sends) + 1]
            /\ sends' = Append(sends, m)
            /\ mhl' = [mhl EXCEPT ![s] =
                          IF m.pc = "raised" THEN "recv" ELSE "send_message"]

\* the function call a session's handler is in: its last one
CallOf(s) ==
    CHOOSE i \in 1..Len(fcLog) :
        fcLog[i].sid = s /\ \A j \in (i + 1)..Len(fcLog) : fcLog[j].sid /= s

\* a handle_function_call call: handed holds the commands on_command was
\* called with so far, pc is "on_command" while the last of them is
\* awaited, then "returned" or "failed" (the except branch was taken);
\* send is the send_message call of the except branch, 0 if there is none
NewCall(s, item, handed, pc) ==
    [sid |-> s, item |-> item, handed |-> handed, pc |-> pc, send |-> 0]

\* conversation.item.done with a function_call item, up to the first
\* suspension of handle_function_call
FunctionCall(s, item) ==
        /\ Receiving(s) /\ Len(fcLog) < MaxItems
        /\ LET c == commands(item) IN
           IF c.raised
           THEN report(s, Append(fcLog, NewCall(s, item, <<>>, "failed")))
           ELSE IF c.cmds = <<>>
           THEN /\ fcLog' = Append(fcLog, NewCall(s, item, <<>>, "returned"))
                /\ UNCHANGED <<mhl, sends>>
           ELSE /\ fcLog' = Append(fcLog,
                               NewCall(s, item, <<c.cmds[1]>>, "on_command"))
                /\ mhl' = [mhl EXCEPT ![s] = "on_command"]
                /\ UNCHANGED sends
        /\ UNCHANGED <<_sockets, _latency_trackers, closing, wire, stored>>
        /\ UNCHANGED pacerVars
        /\ UNCHANGED moreVars

HandleFunctionCall ==
    \E s \in SessionIds, item \in FunctionCalls : FunctionCall(s, item)

\* an "output" call that bundles two commands
HandleBundledCall ==
    \E s \in SessionIds :
        FunctionCall(s, Item("output", "object", "array",
                             <<Cmd("c1", "x"), Cmd("c2", "y")>>))

\* on_command returns: the next command is handed over, or the handler
\* returns
CommandReturn ==
    \E s \in SessionIds :
        /\ mhl[s] = "on_command"
        /\ LET i == CallOf(s)
               c == commands(fcLog[i].item)
           IN IF Len(fcLog[i].handed) < Len(c.cmds)
              THEN /\ fcLog' = [fcLog EXCEPT ![i].handed =
                                   Append(@, c.cmds[Len(@) + 1])]
                   /\ UNCHANGED mhl
              ELSE /\ fcLog' = [fcLog EXCEPT ![i].pc = "returned"]
                   /\ mhl' = [mhl EXCEPT ![s] = "recv"]
        /\ UNCHANGED <<_sockets, _latency_trackers, closing, wire, sends,
                       stored>>
        /\ UNCHANGED pacerVars
        /\ UNCHANGED moreVars

\* on_command raises
CommandRaise ==
    \E s \in SessionIds :
        /\ mhl[s] = "on_command"
        /\ report(s, [fcLog EXCEPT ![CallOf(s)].pc = "failed"])
        /\ UNCHANGED <<_sockets, _latency_trackers, closing, wire, stored>>
        /\ UNCHANGED pacerVars
        /\ UNCHANGED moreVars

\* ---------------------------------------------------- handle_transcript
\* a key that a JSON object does not have; for a local, Python None
NoKey == "<none>"

\* a content part of a message item
Part(type, transcript, text) ==
    [type |-> type, transcript |-> transcript, text |-> text]

\* the parts of an assistant item: output audio, with or without transcript
AssistantParts ==
    {Part("output_audio", "hello", NoKey), Part("output_audio", NoKey, NoKey)}

\* the parts of a user item: input audio, with or without transcript, and
\* typed text
UserParts ==
    {Part("input_audio", "hi", NoKey), Part("input_audio", NoKey, NoKey),
     Part("input_text", NoKey, "yo")}

PartSeqs(S) == UNION {[1..n -> S] : n \in 0..MaxParts}

NoItem == [type |-> NoKey, role |-> NoKey, content |-> <<>>]

\* conversation.item.input_audio_transcription.completed
TranscriptionCompleted(transcript) ==
    [type |-> "conversation.item.input_audio_transcription.completed",
     transcript |-> transcript, item |-> NoItem]

\* conversation.item.done with a message item
MessageDone(role, content) ==
    [type |-> "conversation.item.done", transcript |-> NoKey,
     item |-> [type |-> "message", role |-> role, content |-> content]]

TranscriptEvents ==
    {TranscriptionCompleted(t) : t \in {NoKey, "", "hello"}}
    \cup {MessageDone("assistant", c) : c \in PartSeqs(AssistantParts)}
    \cup {MessageDone("user", c) : c \in PartSeqs(UserParts)}

\* the loop of lines 107-120 from part i on: the transcript it ends with
RECURSIVE scan(_, _, _)
scan(role, content, i) ==
    IF i > Len(content) THEN NoKey
    ELSE IF role = "assistant" /\ content[i].type = "output_audio"
    THEN IF content[i].transcript /= NoKey
         THEN content[i].transcript
         ELSE scan(role, content, i + 1)
    ELSE IF role = "user"
    THEN IF content[i].transcript /= NoKey
         THEN content[i].transcript
         ELSE IF content[i].type = "input_text" /\ content[i].text /= NoKey
         THEN content[i].text
         ELSE scan(role, content, i + 1)
    ELSE scan(role, content, i + 1)

\* handle_transcript with a callback given: the on_transcript calls it
\* makes.  An event with a 'transcript' key is passed on as it is, empty
\* or not (lines 100-103); one with neither that key nor an item raises
\* KeyError, which is caught (line 123)
handle_transcript(event) ==
    IF event.transcript /= NoKey
    THEN <<[role |-> "user", text |-> event.transcript]>>
    ELSE IF event.item = NoItem THEN <<>>
    ELSE LET transcript == scan(event.item.role, event.item.content, 1) IN
         IF transcript \notin {NoKey, ""}
         THEN <<[role |-> event.item.role, text |-> transcript]>>
         ELSE <<>>

\* a transcript event up to `await on_transcript(...)`, or to the end of
\* its handling when there is no call to make
Transcript(s, event) ==
        /\ Receiving(s) /\ Len(trLog) < MaxTranscripts
        /\ trLog' = Append(trLog, [sid |-> s, event |-> event,
                                   calls |-> handle_transcript(event)])
        /\ mhl' = IF handle_transcript(event) /= <<>>
                  THEN [mhl EXCEPT ![s] = "on_transcript"]
                  ELSE mhl
        /\ UNCHANGED <<now, _audio_pacers, _first_audio_delta_logged,
                       _last_ai_audio_done_time, frames, sinkLog, cur, stops>>
        /\ UNCHANGED <<ignored, s2sVars>>
        /\ UNCHANGED sessVars

HandleTranscript ==
    \E s \in SessionIds, event \in TranscriptEvents : Transcript(s, event)

\* a transcription of what the user said
HandleUserTranscript ==
    \E s \in SessionIds : Transcript(s, TranscriptionCompleted("hello"))

\* on_transcript returns, or raises and handle_transcript catches it
TranscriptDone ==
    \E s \in SessionIds :
        /\ mhl[s] = "on_transcript"
        /\ mhl' = [mhl EXCEPT ![s] = "recv"]
        /\ UNCHANGED <<now, _audio_pacers, _first_audio_delta_logged,
                       _last_ai_audio_done_time, frames, sinkLog, cur, stops>>
        /\ UNCHANGED moreVars
        /\ UNCHANGED sessVars

\* ----------------------------------------- handle_message, by event type
\* the branch of the if/elif chain of lines 130-178 for each type it names
branch_of ==
    [t \in {"response.output_audio.delta", "response.output_audio.done",
            "conversation.item.input_audio_transcription.completed",
            "input_audio_buffer.speech_started",
            "input_audio_buffer.speech_stopped", "response.created",
            "response.output_audio.started", "conversation.item.done"} |->
        CASE t = "response.output_audio.delta" -> "audio_delta"
          [] t = "response.output_audio.done" -> "audio_done"
          [] t = "conversation.item.input_audio_transcription.completed"
                 -> "transcript"
          [] t = "input_audio_buffer.speech_started" -> "speech_started"
          [] t = "conversation.item.done" -> "item_done"
          [] OTHER -> "log"]

\* a faulty dispatch: a type without a branch is taken for speech_started
branch_interrupts(t) ==
    IF t \in DOMAIN branch_of THEN branch_of[t] ELSE "speech_started"

\* the branch taken for type t; the last one (line 179) only logs
branch(t) == IF t \in DOMAIN branch_of THEN branch_of[t] ELSE "else"

\* the events that carry nothing but their type
TypedEvents ==
    {"response.output_audio.done", "input_audio_buffer.speech_started",
     "input_audio_buffer.speech_stopped", "rate_limits.updated"}

\* an event of type t that carries nothing but its type
Typed(s, t) ==
    CASE branch(t) = "audio_done" -> AudioDone(s)
      [] branch(t) = "speech_started" -> SpeechStarted(s)
      [] OTHER ->
            /\ Receiving(s)
            /\ ignored' = [ignored EXCEPT ![s] = t]
            /\ UNCHANGED <<now, _audio_pacers, _first_audio_delta_logged,
                           _last_ai_audio_done_time, mhl, frames, sinkLog,
                           cur, stops>>
            /\ UNCHANGED <<trLog, s2sVars>>
            /\ UNCHANGED sessVars

HandleTyped == \E s \in SessionIds, t \in TypedEvents : Typed(s, t)

\* ------------------------------------------- speech_to_speech.start_s2s
\* start_s2s, lines 244-250: the WebSocketApp is stored under the session
\* id (connection 1 is the one start_s2s opens)
StartS2S ==
    \E s \in SessionIds :
        /\ s \notin DOMAIN openai_sockets
        /\ openai_sockets' = Put(openai_sockets, s, 1)
        /\ UNCHANGED <<omLog, dispVars, mhl>>
        /\ UNCHANGED pacerVars
        /\ UNCHANGED sessVars

\* send_s2s_message(message, context) on a connection that accepts
\* writes: it raises for an id without socket and for a part that is not
\* text, before anything is written; else ws.send, which is synchronous
\* here, writes the two events
send_s2s_message(socks, log_id, message, by) ==
    LET ws == IF log_id \in DOMAIN socks THEN socks[log_id] ELSE 0
        b  == build_parts(message.content, 1, <<>>)
    IN IF ws = 0 \/ b.raised
       THEN [raised |-> TRUE, events |-> <<>>]
       ELSE [raised |-> FALSE,
             events |-> <<[ws |-> ws, type |-> "conversation.item.create",
                           role |-> "user", content |-> b.parts, by |-> by],
                          [ws |-> ws, type |-> "response.create",
                           role |-> "", content |-> <<>>, by |-> by]>>]

\* the events send_s2s_message wrote for the application
AppS2SEvents ==
    {j \in 1..Len(wire) :
        wire[j].by = 0 /\ wire[j].type = "conversation.item.create"}

\* message['content'] with at most one part
ShortContents == {content \in Contents : Len(content) <= 1}

\* send_s2s_message called by the application
ApiSendS2SMessage ==
    \E s \in SessionIds,
       message \in {m \in Messages : m.content \in ShortContents} :
        /\ Cardinality(AppS2SEvents) < MaxSends
        /\ wire' = wire \o send_s2s_message(openai_sockets, s, message, 0).events
        /\ UNCHANGED <<_sockets, _latency_trackers, closing, sends, fcLog,
                       stored, mhl>>
        /\ UNCHANGED pacerVars
        /\ UNCHANGED moreVars

\* the names that are bound where line 160 is evaluated: the locals of
\* on_message on that path, the names of start_s2s it closes over, and
\* the names of the module
NamesAtLine160 ==
    {"ws", "message", "server_event", "item", "arguments", "cmd_name",
     "args", "cmd", "single_cmd", "e", "trace", "err_content"}
    \cup {"model", "system_prompt", "on_command", "on_audio_chunk", "voice",
          "play_local", "context", "kwargs", "url", "headers"}
    \cup {"openai_sockets", "openai_loops", "send_s2s_message", "asyncio",
          "json", "traceback", "logger"}

\* evaluating a name that is not bound raises NameError
name_raises(name) == name \notin NamesAtLine160

\* err_content, lines 156-159
S2SErrorContent == <<Text("[SYSTEM: Error executing command]")>>

\* an on_message call for a function_call item: handed holds the commands
\* on_command was called with so far, cb_raised says that on_command
\* raised, pc is "on_command" while a command is awaited, then "returned",
\* or "failed" when an exception left on_message (lines 166-170 print it
\* and raise it again)
NewOnMessage(s, item, handed, pc) ==
    [sid |-> s, item |-> item, handed |-> handed, pc |-> pc,
     cb_raised |-> FALSE]

\* the except branch of lines 150-161 for call i, whose record becomes
\* log[i]: asyncio.sleep(0.5) is not awaited and so does nothing; the dict
\* of line 160 reads the name `content`, which is bound nowhere, and the
\* NameError leaves the handler before send_s2s_message is reached
except_branch(i, log) ==
    LET r == send_s2s_message(openai_sockets, log[i].sid,
                        [role |-> "user", content |-> S2SErrorContent],
                        0 - i)
    IN IF name_raises("content") \/ r.raised
       THEN /\ omLog' = [log EXCEPT ![i].pc = "failed"]
            /\ UNCHANGED wire
       ELSE /\ omLog' = [log EXCEPT ![i].pc = "returned"]
            /\ wire' = wire \o r.events

\* conversation.item.done with a function_call item, up to the first
\* suspension of on_message.  Each message gets a coroutine of its own
\* (run_coroutine_threadsafe, line 179).  item['arguments'] that is not
\* JSON is raised again outside the inner try (lines 127-131)
OnMessage(s, item) ==
        /\ s \in DOMAIN openai_sockets /\ Len(omLog) < MaxItems
        /\ LET c == commands(item)
               i == Len(omLog) + 1
           IN IF json_raises(item.arguments)
              THEN /\ omLog' = Append(omLog, NewOnMessage(s, item, <<>>, "failed"))
                   /\ UNCHANGED wire
              ELSE IF c.raised
              THEN except_branch(i, Append(omLog,
                                        NewOnMessage(s, item, <<>>, "returned")))
              ELSE IF c.cmds = <<>>
              THEN /\ omLog' = Append(omLog,
                                   NewOnMessage(s, item, <<>>, "returned"))
                   /\ UNCHANGED wire
              ELSE /\ omLog' = Append(omLog,
                                   NewOnMessage(s, item, <<c.cmds[1]>>,
                                                "on_command"))
                   /\ UNCHANGED wire
        /\ UNCHANGED <<openai_sockets, dispVars, mhl>>
        /\ UNCHANGED <<_sockets, _latency_trackers, closing, sends, fcLog,
                       stored>>
        /\ UNCHANGED pacerVars

OnMessageCall ==
    \E s \in SessionIds, item \in FunctionCalls : OnMessage(s, item)

\* on_command returns to on_message: the next command is handed over, or
\* the handler returns
S2SCommandReturn ==
    \E i \in 1..Len(omLog) :
        /\ omLog[i].pc = "on_command"
        /\ LET c == commands(omLog[i].item) IN
           omLog' = IF Len(omLog[i].handed) < Len(c.cmds)
                    THEN [omLog EXCEPT ![i].handed =
                             Append(@, c.cmds[Len(@) + 1])]
                    ELSE [omLog EXCEPT ![i].pc = "returned"]
        /\ UNCHANGED <<openai_sockets, dispVars, mhl>>
        /\ UNCHANGED pacerVars
        /\ UNCHANGED sessVars

\* on_command raises in on_message
S2SCommandRaise ==
    \E i \in 1..Len(omLog) :
        /\ omLog[i].pc = "on_command"
        /\ except_branch(i, [omLog EXCEPT ![i].cb_raised = TRUE])
        /\ UNCHANGED <<openai_sockets, dispVars, mhl>>
        /\ UNCHANGED <<_sockets, _latency_trackers, closing, sends, fcLog,
                       stored>>
        /\ UNCHANGED pacerVars

\* ------------------------------------------------------- specifications
InitCommon ==
    /\ now = 1
    /\ _first_audio_delta_logged = EmptyMap
    /\ _last_ai_audio_done_time = EmptyMap
    /\ frames = <<>>
    /\ sinkLog = <<>>
    /\ cur = [s \in SessionIds |-> NoTurn(FALSE)]
    /\ stops = <<>>
    /\ _sockets = EmptyMap
    /\ _latency_trackers = EmptyMap
    /\ closing = {}
    /\ wire = <<>>
    /\ sends = <<>>
    /\ fcLog = <<>>
    /\ stored = [s \in SessionIds |-> 0]
    /\ trLog = <<>>
    /\ ignored = [s \in SessionIds |-> ""]
    /\ openai_sockets = EmptyMap
    /\ omLog = <<>>

\* two sessions whose message_handler_loops have just been started
InitPair ==
    /\ InitCommon
    /\ _audio_pacers = EmptyMap
    /\ mhl = [s \in SessionIds |-> "recv"]

\* one session, "A", whose message_handler_loop has just been started
Init ==
    /\ InitCommon
    /\ _audio_pacers = EmptyMap
    /\ mhl = [s \in SessionIds |-> IF s = "A" THEN "recv" ELSE "none"]

Next ==
    \/ HandleAudioDelta
    \/ HandleAudioDone
    \/ HandleSpeechStarted
    \/ InterruptDone
    \/ HandleIgnored
    \/ HandleBadJson
    \/ HandleClosed
    \/ TaskStart
    \/ Wake
    \/ SinkReturn
    \/ SinkRaise
    \/ Tick

Spec == Init /\ [][Next]_vars

\* one AudioPacer, just constructed, and its caller
InitPacer ==
    /\ InitCommon
    /\ _audio_pacers = [s \in {"A"} |-> AudioPacer]
    /\ mhl = [s \in SessionIds |-> "none"]

NextPacer ==
    \/ ApiStartPacing
    \/ ApiAddChunk
    \/ ApiClear
    \/ ApiStop
    \/ TaskStart
    \/ Wake
    \/ SinkReturn
    \/ SinkRaise
    \/ Tick

SpecPacer == InitPacer /\ [][NextPacer]_vars

\* one AudioPacer and its caller, who may call start_pacing again
NextRestart ==
    \/ ApiStartPacing
    \/ ApiStartPacingAgain
    \/ ApiAddTickChunk
    \/ ApiStop
    \/ TaskStart
    \/ Wake
    \/ SinkReturn
    \/ TickShort

SpecRestart == InitPacer /\ [][NextRestart]_vars

\* the session of Init receiving one uninterrupted turn
NextTurn ==
    \/ HandleTurnDelta
    \/ TaskStart
    \/ Wake
    \/ SinkReturn
    \/ TickTurn

SpecTurn == Init /\ [][NextTurn]_vars

\* the session of Init and its function calls, while the application
\* registers and unregisters connections
NextSession ==
    \/ HandleFunctionCall
    \/ CommandReturn
    \/ CommandRaise
    \/ SendReturn
    \/ SendFail
    \/ ApiStoreSessionSocket
    \/ ApiRemoveSessionSocket

SpecSession == Init /\ [][NextSession]_vars

\* the registry and the latency trackers, driven by the application while
\* the session of Init goes on until its connection closes
NextRegistry ==
    \/ ApiStoreSocket
    \/ ApiRemoveSocket
    \/ ApiCloseConnection
    \/ CloseDone
    \/ ApiSendAudioChunk
    \/ HandleIgnored
    \/ HandleClosed

SpecRegistry == Init /\ [][NextRegistry]_vars

\* send_message called by the application on registered connections
NextSend ==
    \/ ApiStoreSessionSocket
    \/ ApiSendMessage
    \/ SendReturn
    \/ SendFail

SpecSend == Init /\ [][NextSend]_vars

\* audio deltas and audio.done while the queue drains: no speech_started,
\* no end of the session, a sink that returns.  The event loop runs every
\* task that is ready and time goes on, hence the weak fairness
NextDrain ==
    \/ HandleAudioDelta
    \/ HandleAudioDone
    \/ TaskStart
    \/ Wake
    \/ SinkReturn
    \/ TickDrain

SpecDrain ==
    /\ Init
    /\ [][NextDrain]_vars
    /\ WF_vars(TaskStart)
    /\ WF_vars(Wake)
    /\ WF_vars(SinkReturn)
    /\ WF_vars(TickDrain)

\* the events that bring no audio and no function call
NextTranscript ==
    \/ HandleTranscript
    \/ TranscriptDone
    \/ HandleTyped
    \/ InterruptDone

SpecTranscript == Init /\ [][NextTranscript]_vars

\* one session with its pacer and its connection, and the events that
\* carry nothing but their type
NextEvents ==
    \/ HandleTickDelta
    \/ HandleTyped
    \/ InterruptDone
    \/ ApiStoreSessionSocket
    \/ TaskStart
    \/ Wake
    \/ SinkReturn
    \/ TickShort

SpecEvents == Init /\ [][NextEvents]_vars

\* one session: the events that await a callback, and the pacing loop
NextDispatch ==
    \/ HandleTickDelta
    \/ HandleBundledCall
    \/ CommandReturn
    \/ CommandRaise
    \/ HandleUserTranscript
    \/ TranscriptDone
    \/ HandleSpeechStarted
    \/ InterruptDone
    \/ TaskStart
    \/ Wake
    \/ SinkReturn
    \/ TickShort

SpecDispatch == Init /\ [][NextDispatch]_vars

\* two sessions side by side: their events and the registry calls of the
\* application (the pacing tasks are created and not yet run)
NextPair ==
    \/ HandlePairDelta
    \/ HandleAudioDone
    \/ HandleSpeechStarted
    \/ InterruptDone
    \/ HandleClosed
    \/ ApiStoreOwnSocket
    \/ ApiRemoveSocket
    \/ ApiCloseConnection
    \/ CloseDone

SpecPair == InitPair /\ [][NextPair]_vars

\* the start_s2s service: sessions are started, function calls come in,
\* the application sends messages
NextS2S ==
    \/ StartS2S
    \/ OnMessageCall
    \/ S2SCommandReturn
    \/ S2SCommandRaise
    \/ ApiSendS2SMessage

SpecS2S == Init /\ [][NextS2S]_vars

\* one pacer driven through its methods, with frames of one tick and the
\* short clock: every order of add_chunk, clear, stop and the loop's steps
NextCalls ==
    \/ ApiStartPacing
    \/ ApiAddTickChunk
    \/ ApiClear
    \/ ApiStop
    \/ TaskStart
    \/ Wake
    \/ SinkReturn
    \/ SinkRaise
    \/ TickShort

SpecCalls == InitPacer /\ [][NextCalls]_vars

\* ---------------------------------------------------------------- claims
\* the tasks of the registered pacers, as <<session, task index>>
Tasks ==
    {st \in SessionIds \X (1..(MaxStarts + 1)) :
        Registered(st[1]) /\ st[2] <= Len(_audio_pacers[st[1]].tasks)}

TaskOf(st) == _audio_pacers[st[1]].tasks[st[2]]

\* the frames the sink is being handed right now
AtSink == {st \in Tasks : TaskOf(st).pc = "sink"}

\* C1: the sink gets only frames that were enqueued, each at most once, in
\* the order of their add_chunk calls, and it gets a frame only after every
\* frame enqueued before it that no clear() or stop() discarded
C1_FramesDeliveredInOrder ==
    \A j \in 1..Len(sinkLog) :
        LET i == sinkLog[j] IN
        /\ i \in 1..Len(frames)
        /\ frames[i].accepted
        /\ \A j2 \in 1..(j - 1) : sinkLog[j2] < i
        /\ \A i2 \in 1..(i - 1) :
               (frames[i2].sid = frames[i].sid /\ frames[i2].accepted
                /\ ~frames[i2].cut)
               => \E j2 \in 1..(j - 1) : sinkLog[j2] = i2

C1_Witness ==
    /\ Len(sinkLog) = MaxFrames
    /\ \A i \in 1..Len(frames) : ~frames[i].cut

\* C2: no frame is handed to the sink before its playback instant within
\* its turn: the instant the turn's first frame was enqueued plus the bytes
\* of the turn's earlier frames at 8000 bytes/s
C2_NeverDeliveredEarly ==
    \A st \in AtSink : now >= TaskOf(st).chunk.due

\* C3: the first frame enqueued after a clear() is stamped with the instant
\* it was enqueued (which is its due instant, as it starts a turn)
C3_ClearResetsTiming ==
    \A st \in AtSink :
        TaskOf(st).chunk.fresh => TaskOf(st).ts = TaskOf(st).chunk.due

\* C4: after a clear(), bytes_sent is 0 until a frame enqueued after the
\* clear is delivered, also when a delivery was in flight during the clear
C4_ClearAtomicWithInFlight ==
    \A s \in SessionIds :
        (Registered(s) /\ cur[s].cleared) => _audio_pacers[s].bytes_sent = 0

\* C5: no frame that was in the queue when speech_started was handled (or
\* when the pacer was stopped) ever reaches the sink
C5_QueuedFramesNeverReachSink ==
    \A j \in 1..Len(sinkLog) : ~frames[sinkLog[j]].cut

C5_Witness ==
    /\ Registered("A")
    /\ \E i \in 1..Len(frames) :
           /\ frames[i].cut
           /\ \E j \in 1..Len(sinkLog) : sinkLog[j] > i

\* C6: handling speech_started for a session with queued frames empties the
\* queue, awaits on_interrupt once, leaves the pacing loop as it was
\* (running, not cancelled) and hands nothing to the sink; while
\* on_interrupt is awaited the queue stays empty; and no frame handed to
\* the sink later is one that was discarded
C6_Step ==
    /\ \A s \in SessionIds :
           (SpeechStarted(s) /\ Registered(s)
            /\ _audio_pacers[s].buffer /= <<>>)
           => /\ Registered(s)'
              /\ _audio_pacers'[s].buffer = <<>>
              /\ mhl'[s] = "on_interrupt"
              /\ _audio_pacers'[s]._running
              /\ _audio_pacers'[s].tasks = _audio_pacers[s].tasks
              /\ sinkLog' = sinkLog
    /\ \A s \in SessionIds :
           (mhl'[s] = "on_interrupt" /\ Registered(s)')
           => _audio_pacers'[s].buffer = <<>>
    /\ Len(sinkLog') > Len(sinkLog)
           => ~frames'[sinkLog'[Len(sinkLog')]].cut

C6_SpeechStartedOutcome == [][C6_Step]_vars

C6_Witness ==
    /\ mhl["A"] = "on_interrupt"
    /\ Registered("A")
    /\ \E i \in 1..Len(frames) : frames[i].cut
    /\ \E st \in Tasks : TaskLive(TaskOf(st))

\* C7: no stop() call raises, each leaves the queue empty, and the sink is
\* handed nothing after the first
C7_StopIdempotentAndFinal ==
    \A i \in 1..Len(stops) :
        /\ ~stops[i].raised
        /\ stops[i].left = 0
        /\ Len(sinkLog) = stops[1].handed

\* C8: a sink failure does not end the pacing loop
C8_SinkFailureKeepsPacing ==
    \A st \in Tasks : TaskOf(st).pc /= "failed"

\* C9: the stop() of the cleanup path does not raise and leaves the queue
\* empty, whatever the pacing task ended with
C9_CleanupStopDoesNotRaise ==
    /\ \A s \in SessionIds : mhl[s] /= "crashed"
    /\ \A i \in 1..Len(stops) : ~stops[i].raised /\ stops[i].left = 0

\* C10: a malformed message (not JSON, no 'type', a missing field) is
\* skipped: message_handler_loop goes on receiving
C10_MalformedMessageSkipped ==
    [][\A s \in SessionIds :
          (BadJson(s) \/ (HandleIgnored /\ mhl[s] = "recv"))
          => mhl'[s] = "recv"]_vars

\* the function calls with valid JSON arguments (and, for "output", a
\* text that parses)
WellFormed(item) ==
    /\ item.arguments = "object"
    /\ item.name = "output" => item.text \in {"array", "object"}

\* what the command callback is to be called with for a well-formed item
Expected(item) ==
    IF item.name /= "output" THEN <<Cmd(item.name, "args")>>
    ELSE item.cmds

IsPrefix(a, b) == Len(a) <= Len(b) /\ a = SubSeq(b, 1, Len(a))

\* C11: for a function_call item with valid JSON arguments the command
\* callback is called with {name: arguments} once if name is not "output",
\* else with the N elements of the text's array in array order, or once
\* with the text's single object: all of them by the time the handler
\* returns, and the next only when the one before has returned
C11_Step ==
    /\ \A i \in 1..Len(fcLog') :
           WellFormed(fcLog'[i].item)
           => /\ IsPrefix(fcLog'[i].handed, Expected(fcLog'[i].item))
              /\ fcLog'[i].pc = "returned"
                     => fcLog'[i].handed = Expected(fcLog'[i].item)
    /\ \A i \in 1..Len(fcLog) :
           fcLog'[i].handed /= fcLog[i].handed
           => /\ CommandReturn
              /\ fcLog[i].pc = "on_command"
              /\ Len(fcLog'[i].handed) = Len(fcLog[i].handed) + 1

C11_CommandsInvokedInOrder == [][C11_Step]_vars

C11_Witness ==
    \E i \in 1..Len(fcLog) :
        /\ fcLog[i].pc = "returned"
        /\ fcLog[i].item.text = "array"
        /\ Len(fcLog[i].handed) = 2

\* the events a send_message call has written, in wire order
RECURSIVE WrittenBy(_, _, _)
WrittenBy(w, k, n) ==
    IF n = 0 THEN <<>>
    ELSE IF w[n].by = k THEN Append(WrittenBy(w, k, n - 1), w[n])
    ELSE WrittenBy(w, k, n - 1)

\* a function call is over: its handler has returned to handle_message
Over(call, snd) ==
    \/ call.pc = "returned"
    \/ call.pc = "failed"
       /\ (call.send = 0 \/ snd[call.send].pc \in {"returned", "raised"})

\* C12: when a function call fails (malformed arguments, or on_command
\* raises) and a connection is registered for the session, one
\* send_message call is made on that connection with one text part, and
\* what it writes is a conversation.item.create of role user, then a
\* response.create; with no connection registered nothing is sent; either
\* way message_handler_loop goes on to await the next event
C12_Step ==
    /\ \A i \in 1..Len(fcLog') :
           (fcLog'[i].pc = "failed"
            /\ (i > Len(fcLog) \/ fcLog[i].pc /= "failed"))
           => LET s == fcLog'[i].sid IN
              IF stored[s] = 0
              THEN /\ fcLog'[i].send = 0
                   /\ sends' = sends
                   /\ mhl'[s] = "recv"
              ELSE /\ fcLog'[i].send = Len(sends) + 1
                   /\ Len(sends') = Len(sends) + 1
                   /\ sends'[Len(sends')].by = s
                   /\ sends'[Len(sends')].ws = stored[s]
                   /\ sends'[Len(sends')].pc = "create"
                   /\ Len(sends'[Len(sends')].parts) = 1
                   /\ mhl'[s] = "send_message"
    /\ \A i \in 1..Len(fcLog') :
           (fcLog'[i].pc = "failed" /\ fcLog'[i].send /= 0)
           => LET k == fcLog'[i].send
                  w == WrittenBy(wire', k, Len(wire'))
              IN /\ Len(w) <= 2
                 /\ sends'[k].pc = "returned" => Len(w) = 2
                 /\ \A j \in 1..Len(w) : w[j].ws = sends'[k].ws
                 /\ Len(w) >= 1
                        => /\ w[1].type = "conversation.item.create"
                           /\ w[1].role = "user"
                           /\ w[1].content = sends'[k].parts
                 /\ Len(w) = 2 => w[2].type = "response.create"
    /\ \A s \in SessionIds :
           (\E i \in 1..Len(fcLog') : fcLog'[i].sid = s)
           => (Over(fcLog'[CallOf(s)'], sends') <=> mhl'[s] = "recv")

C12_FailureReportedNotRaised == [][C12_Step]_vars

C12_Witness ==
    /\ Len(fcLog) = MaxItems
    /\ mhl["A"] = "recv"
    /\ fcLog[1].pc = "failed"
    /\ fcLog[1].send /= 0
    /\ sends[fcLog[1].send].pc = "returned"
    /\ Len(fcLog[1].handed) = 1

\* the instant the frames of the turn of SpecTurn were enqueued
TurnStart == _audio_pacers["A"].audio_start_time

\* C13: the frames of one uninterrupted turn on a fresh pacer, 20 ms each
\* and all enqueued at instant t, reach the sink in order, frame j (from
\* 1) no earlier than t + 20(j-1) ms; after a delivery the loop sleeps to
\* exactly t + 20 ms times the frames delivered, so that it is through
\* with a turn of three frames at t + 60 ms and not before
C13_TurnPacedAtFrameRate ==
    /\ \A j \in 1..Len(sinkLog) : sinkLog[j] = j
    /\ \A st \in AtSink :
           now >= TurnStart + (TaskOf(st).chunk.id - 1) * Secs(TurnFrameLen)
    /\ \A st \in Tasks :
           /\ TaskOf(st).pc = "sleep"
                  => TaskOf(st).wake
                         = TurnStart + Len(sinkLog) * Secs(TurnFrameLen)
           /\ (TaskOf(st).pc = "idle" /\ Len(sinkLog) > 0)
                  => now >= TurnStart + Len(sinkLog) * Secs(TurnFrameLen)

C13_Witness ==
    /\ Len(sinkLog) = MaxFrames
    /\ \E st \in Tasks : TaskOf(st).pc = "idle"
    /\ now = TurnStart + TurnTicks

\* message_handler_loop of session s is over (it returned, or an
\* exception left its finally block)
Exited(s) == mhl[s] \in {"done", "crashed"}

\* C14: once message_handler_loop is over, the session has no entry in
\* _audio_pacers and no pacing task of it is running, whatever ended the
\* loop and whatever the pacing task had ended with
C14_CleanupRemovesPacer ==
    \A s \in SessionIds :
        Exited(s)
        => /\ ~Registered(s)
           /\ \A st \in Tasks : st[1] = s => ~TaskLive(TaskOf(st))

\* C15: once message_handler_loop is over, the session has no entry in the
\* timing maps (_session_timings is written nowhere, so it has none)
C15_TimingMapsCleared ==
    \A s \in SessionIds :
        Exited(s)
        => /\ s \notin DOMAIN _first_audio_delta_logged
           /\ s \notin DOMAIN _last_ai_audio_done_time

\* C16: when message_handler_loop ends (the connection closed, the stream
\* ended), the session is no longer registered: get_socket raises for its
\* id and it has no latency tracker
C16_ClosedSessionUnregistered ==
    [][\A s \in SessionIds :
          (mhl[s] = "recv" /\ Exited(s)')
          => /\ get_socket(_sockets', s).raised
             /\ s \notin DOMAIN _latency_trackers']_vars

\* C17: get_socket(id) returns the connection last stored for id by
\* store_socket, and raises for an id never stored or removed since by
\* remove_socket or close_connection; so no call changes what is looked up
\* for another id, and removing an unknown id changes nothing
C17_RegistryLookup ==
    \A s \in SessionIds :
        get_socket(_sockets, s) =
            IF stored[s] = 0 THEN [raised |-> TRUE, ws |-> 0]
            ELSE [raised |-> FALSE, ws |-> stored[s]]

C17_Witness ==
    /\ ~get_socket(_sockets, "A").raised
    /\ get_socket(_sockets, "A").ws = MaxConns
    /\ get_socket(_sockets, "B").raised
    /\ "B" \in closing

\* the parts send_message is to put on the wire for a content of text parts
InputText(content) ==
    [i \in 1..Len(content) |->
        [type |-> "input_text", text |-> content[i].text]]

\* C18: a send_message call whose content has a part that is not text
\* raises with nothing written; any other call writes, on its connection,
\* one conversation.item.create with all the text parts in their order and
\* then one response.create: both by the time it returns, and only a
\* ws.send that raises can cut that short
C18_SendAllOrNothing ==
    \A k \in 1..Len(sends) :
        LET w == WrittenBy(wire, k, Len(wire))
            c == sends[k].content
        IN IF \E i \in 1..Len(c) : c[i].type /= "text"
           THEN sends[k].pc = "raised" /\ w = <<>>
           ELSE /\ Len(w) <= 2
                /\ (sends[k].pc = "create")
                       <=> (Len(w) = 0 /\ sends[k].pc /= "raised")
                /\ (sends[k].pc = "returned") <=> (Len(w) = 2)
                /\ \A j \in 1..Len(w) : w[j].ws = sends[k].ws
                /\ Len(w) >= 1
                       => /\ w[1].type = "conversation.item.create"
                          /\ w[1].content = InputText(c)
                /\ Len(w) = 2 => w[2].type = "response.create"

C18_Witness ==
    \E k \in 1..Len(sends) :
        /\ sends[k].by = "app"
        /\ sends[k].pc = "returned"
        /\ Len(sends[k].content) = MaxParts
        /\ sends[k].content[1] /= sends[k].content[2]

\* the pacer p is between a start_pacing call and the next stop() call
Started(p) ==
    /\ Len(p.tasks) > 0
    /\ stops = <<>> \/ stops[Len(stops)].starts < Len(p.tasks)

\* C19: an add_chunk call on a pacer that was not started yet, or was
\* stopped since, leaves the pacer (its queue, its timing state) as it was,
\* and the frame never reaches the sink, also when the pacer is started
\* afterwards
C19_Step ==
    /\ \A s \in SessionIds :
           (Direct(s) /\ Len(frames') = Len(frames) + 1
            /\ ~Started(_audio_pacers[s]))
           => /\ _audio_pacers' = _audio_pacers
              /\ ~frames'[Len(frames')].accepted
    /\ \A j \in 1..Len(sinkLog') : frames'[sinkLog'[j]].accepted

C19_DroppedUnlessRunning == [][C19_Step]_vars

C19_Witness ==
    /\ Len(frames) = MaxFrames
    /\ ~frames[1].accepted
    /\ ~frames[2].accepted
    /\ Len(stops) = 1
    /\ Len(_audio_pacers["A"].tasks) = 2
    /\ sinkLog = <<Len(frames)>>

\* C20: at no moment do two pacing tasks of one pacer run
C20_OnePacingLoop ==
    \A s \in SessionIds :
        Cardinality({st \in Tasks : st[1] = s /\ TaskLive(TaskOf(st))}) <= 1

\* C21: an audio delta creates and starts a pacer only when its session
\* has none: a registered pacer has had exactly one start_pacing call and
\* so one pacing loop, the one its pacer_task refers to; and every frame
\* an audio delta brings, the first one included, finds its pacer running
\* and is taken into the queue
C21_OnePacerStartedFirst ==
    /\ \A s \in SessionIds :
           Registered(s) =>
               /\ Len(_audio_pacers[s].tasks) = 1
               /\ _audio_pacers[s].pacer_task = 1
               /\ Cardinality({k \in 1..Len(_audio_pacers[s].tasks) :
                                   TaskLive(_audio_pacers[s].tasks[k])}) <= 1
    /\ \A i \in 1..Len(frames) : frames[i].accepted

\* every audio delta the bound allows was handled, and the frame of the
\* first one has reached the sink
C21_Witness ==
    /\ Len(frames) = MaxFrames
    /\ Registered("A")
    /\ \A i \in 1..Len(frames) : frames[i].sid = "A"
    /\ \E j \in 1..Len(sinkLog) : sinkLog[j] = 1

\* frame i is in the queue of a pacer whose session has had an audio.done
QueuedAfterDone(i) ==
    \E s \in DOMAIN _audio_pacers :
        /\ s \in DOMAIN _last_ai_audio_done_time
        /\ \E j \in 1..Len(_audio_pacers[s].buffer) :
               _audio_pacers[s].buffer[j].id = i

Delivered(i) == \E j \in 1..Len(sinkLog) : sinkLog[j] = i

C22_Step ==
    \A s \in SessionIds :
        AudioDone(s) =>
            /\ _audio_pacers' = _audio_pacers
            /\ s \in DOMAIN _last_ai_audio_done_time'
            /\ _last_ai_audio_done_time'[s] = now

\* C22: audio.done records the turn-end instant and leaves the pacer as
\* it is, queue and pacing loop included; with no later clear or stop and
\* a sink that returns, every frame that is queued then is eventually
\* handed to the sink, and the sink gets the frames in the order they were
\* enqueued
C22_DoneLetsQueueDrain ==
    /\ [][C22_Step]_vars
    /\ [](\A j, k \in 1..Len(sinkLog) : j < k => sinkLog[j] < sinkLog[k])
    /\ \A i \in 1..MaxFrames : QueuedAfterDone(i) ~> Delivered(i)

\* all the frames came at instant 1 and audio.done right after them, at
\* instant 1 too, when at most the first could have left the queue; none
\* came later, and the sink has had every one of them
C22_Witness ==
    /\ Len(frames) = MaxFrames
    /\ "A" \in DOMAIN _last_ai_audio_done_time
    /\ _last_ai_audio_done_time["A"] = 1
    /\ _audio_pacers["A"].audio_start_time = 1
    /\ cur["A"].due = None
    /\ \A i \in 1..MaxFrames : frames[i].sid = "A" /\ Delivered(i)
    /\ now > 1

\* an add_chunk call for session s is made in this step
Enqueues(s) ==
    /\ Len(frames') = Len(frames) + 1
    /\ frames'[Len(frames')].sid = s

\* C23: the first frame enqueued after an audio.done starts a new turn,
\* with no speech_started or clear() in between: audio_start_time is
\* recorded anew at that instant and the count of bytes sent starts again
C23_Step ==
    \A s \in SessionIds :
        ( /\ Enqueues(s)
          /\ Registered(s)
          /\ s \in DOMAIN _last_ai_audio_done_time
          /\ cur[s] = NoTurn(FALSE) )
        => /\ _audio_pacers'[s].audio_start_time = now
           /\ _audio_pacers'[s].bytes_sent = 0

C23_NewTurnAfterDone == [][C23_Step]_vars

\* the pacer's queue and timing state
Timing(p) == <<p.buffer, p.start_time, p.bytes_sent, p.audio_start_time>>

\* C24: a speech_started that finds the pacer's queue empty and no turn
\* that ended before it is a NORMAL one: clear() is for an INTERRUPT only,
\* so the pacer's queue and timing state (start_time, bytes_sent,
\* audio_start_time) are what they were; and no speech_started stops the
\* pacer
C24_Step ==
    \A s \in SessionIds :
        ( /\ mhl[s] = "recv" /\ mhl'[s] = "on_interrupt"
          /\ Registered(s) )
        => /\ Registered(s)'
           /\ _audio_pacers'[s]._running = _audio_pacers[s]._running
           /\ ( /\ _audio_pacers[s].buffer = <<>>
                /\ s \notin DOMAIN _last_ai_audio_done_time )
              => Timing(_audio_pacers'[s]) = Timing(_audio_pacers[s])

C24_NormalTurnKeepsTiming == [][C24_Step]_vars

HasText(x) == x \notin {NoKey, ""}

\* the texts an event carries: the transcript of a transcription event,
\* the transcripts and texts of the content parts of a message item
TextsOf(event) ==
    IF event.item = NoItem
    THEN SelectSeq(<<event.transcript>>, HasText)
    ELSE SelectSeq([i \in 1..Len(event.item.content) |->
                       IF event.item.content[i].transcript /= NoKey
                       THEN event.item.content[i].transcript
                       ELSE event.item.content[i].text],
                   HasText)

\* C25: a transcript event that carries no text (a transcription event
\* with an empty transcript, a message item whose parts have neither
\* transcript nor text) makes no on_transcript call; one that carries text
\* makes exactly one, with the text and with role 'user' for a
\* transcription event and the item's role for a message item
C25_TranscriptCalls ==
    \A i \in 1..Len(trLog) :
        LET event == trLog[i].event
            role  == IF event.item = NoItem THEN "user" ELSE event.item.role
        IN trLog[i].calls =
               IF TextsOf(event) = <<>> THEN <<>>
               ELSE <<[role |-> role, text |-> TextsOf(event)[1]]>>

\* C26: an event of a type handle_message has no branch for is ignored:
\* the message loop goes on to the next message (nothing raised, no
\* callback awaited), no command, sink, transcript or interrupt callback
\* is invoked, and the pacers, the pacer table and the socket registry are
\* what they were
C26_Step ==
    \A s \in SessionIds, t \in TypedEvents \ DOMAIN branch_of :
        Typed(s, t) =>
            UNCHANGED <<mhl, _audio_pacers, _sockets, _latency_trackers,
                        sinkLog, frames, fcLog, trLog, wire,
                        _first_audio_delta_logged, _last_ai_audio_done_time>>

C26_UnrecognizedIgnored == [][C26_Step]_vars

\* an unrecognized event was the last one ignored for a session that has
\* a connection and a running pacer with a frame in its queue
C26_Witness ==
    /\ ignored["A"] \in TypedEvents \ DOMAIN branch_of
    /\ mhl["A"] = "recv"
    /\ "A" \in DOMAIN _sockets
    /\ Registered("A")
    /\ _audio_pacers["A"]._running
    /\ _audio_pacers["A"].buffer /= <<>>

\* the handling of a new event of session s begins in this step
Begins(s) ==
    \/ Enqueues(s)
    \/ Len(fcLog') = Len(fcLog) + 1 /\ fcLog'[Len(fcLog')].sid = s
    \/ Len(trLog') = Len(trLog) + 1 /\ trLog'[Len(trLog')].sid = s
    \/ mhl[s] /= "on_interrupt" /\ mhl'[s] = "on_interrupt"

C27_Step == \A s \in SessionIds : Begins(s) => mhl[s] = "recv"

\* C27: the events of a session are handled one at a time: the handling
\* of an event begins only when that of the one before it is over, its
\* awaited command, transcript or interrupt callback included, so a
\* session never has two callbacks of its events in progress
C27_OneEventAtATime ==
    /\ [][C27_Step]_vars
    /\ [](\A s \in SessionIds :
             Cardinality({i \in 1..Len(fcLog) :
                             /\ fcLog[i].sid = s
                             /\ fcLog[i].pc = "on_command"}) <= 1)

\* the pacing loop is handing a frame to the sink while the message loop
\* is suspended in the command callback, a transcript event has been
\* handled before, and the frame came before the function call
C27_Witness ==
    /\ mhl["A"] = "on_command"
    /\ Len(trLog) = MaxTranscripts
    /\ AtSink /= {}
    /\ Len(frames) >= 1

\* an event of session a is handled, or a registry call is made on id a
OpOn(a) ==
    \/ AudioDelta(a, BytesPerTick)
    \/ AudioDone(a)
    \/ SpeechStarted(a)
    \/ StreamEnd(a)
    \/ StoreSocket(a, 1)
    \/ RemoveSocket(a)
    \/ CloseConnection(a)
    \/ Closed(a)

\* what map f holds for key b
Entry(f, b) == IF b \in DOMAIN f THEN <<f[b]>> ELSE <<>>

\* C28: sessions are independent: an event handled for one session
\* (audio delta, audio.done, speech_started, the cleanup at the end of its
\* message loop) or a registry call on its id (store, remove, close)
\* leaves every other session's pacer, entry in the pacer table, timing
\* bookkeeping, registered connection and message loop as they were
C28_Step ==
    \A a, b \in SessionIds :
        (a /= b /\ OpOn(a)) =>
            /\ Entry(_audio_pacers', b) = Entry(_audio_pacers, b)
            /\ Entry(_first_audio_delta_logged', b) =
                   Entry(_first_audio_delta_logged, b)
            /\ Entry(_last_ai_audio_done_time', b) =
                   Entry(_last_ai_audio_done_time, b)
            /\ Entry(_sockets', b) = Entry(_sockets, b)
            /\ Entry(_latency_trackers', b) = Entry(_latency_trackers, b)
            /\ mhl'[b] = mhl[b]

C28_SessionsIndependent == [][C28_Step]_vars

\* session A had a pacer and a connection, and its message loop is over
\* and its connection removed; session B still has its pacer with the
\* frame it was given, its turn-end instant and its connection
C28_Witness ==
    /\ \E i \in 1..Len(frames) : frames[i].sid = "A"
    /\ mhl["A"] = "done" /\ ~Registered("A")
    /\ "A" \notin DOMAIN _sockets /\ "A" \in DOMAIN _last_ai_audio_done_time
    /\ mhl["B"] = "recv" /\ Registered("B")
    /\ _audio_pacers["B"].buffer /= <<>>
    /\ "B" \in DOMAIN _last_ai_audio_done_time
    /\ "B" \in DOMAIN _sockets

\* C29: when the sink has returned, the loop sleeps only if the target
\* start_time + bytes_sent/8000 is still ahead, and then until exactly
\* that instant; if the target has passed it does not sleep and takes the
\* next queued frame at once; with an empty queue it waits one idle-poll
\* interval and looks again, and goes on doing so instead of exiting; and
\* no sleep ends before its instant
C29_Step ==
    \A st \in Tasks :
        LET s    == st[1]
            p    == _audio_pacers[s]
            task == TaskOf(st)
        IN (Registered(s)' /\ _audio_pacers'[s].tasks[st[2]] /= task) =>
           LET q      == _audio_pacers'[s]
               after  == q.tasks[st[2]]
               target == q.start_time + q.bytes_sent \div BytesPerTick
               next   == IF p.buffer /= <<>>
                         THEN after.pc = "sink" /\ after.chunk = Head(p.buffer)
                              /\ q.buffer = Tail(p.buffer)
                         ELSE after.pc = "idle"
                              /\ after.wake = now + IdlePollMs \div TickMs
           IN /\ (task.pc = "sink" /\ p._running) =>
                    /\ q.bytes_sent = p.bytes_sent + task.chunk.len
                    /\ IF target > now
                       THEN after.pc = "sleep" /\ after.wake = target
                       ELSE next
              /\ (task.pc \in {"sleep", "idle"} /\ p._running) =>
                    now >= task.wake /\ next

C29_CatchUpWithoutDrift == [][C29_Step]_vars

\* the loop is behind: the second frame is at the sink at an instant past
\* the target of the first, and the last frame waits in the queue
C29_Witness ==
    /\ Registered("A")
    /\ sinkLog = <<1, 2>>
    /\ \E st \in AtSink : TaskOf(st).chunk.id = 2
    /\ now > target_time(_audio_pacers["A"])
    /\ _audio_pacers["A"].buffer /= <<>>

\* the events send_s2s_message wrote for on_message call i
ReportedBy(i) ==
    {j \in 1..Len(wire) :
        /\ wire[j].by = 0 - i
        /\ wire[j].type = "conversation.item.create"
        /\ wire[j].role = "user"}

\* C30: when on_command raises in start_s2s's on_message, no exception
\* leaves on_message and a user message that describes the error is
\* written to the session's connection through send_s2s_message
C30_S2SFailureReported ==
    \A i \in 1..Len(omLog) :
        (omLog[i].cb_raised /\ omLog[i].pc /= "on_command") =>
            /\ omLog[i].pc = "returned"
            /\ ReportedBy(i) /= {}

\* C31: a running pacer with a frame in its queue has audio_start_time
\* set, and so every frame the pacing loop hands to the sink goes with a
\* timestamp: the branch without one is never taken, whatever the order
\* of add_chunk, clear, stop and the steps of the loop
C31_TimestampAlwaysGiven ==
    /\ \A s \in SessionIds :
           (Registered(s) /\ _audio_pacers[s]._running
                /\ _audio_pacers[s].buffer /= <<>>)
               => Truthy(_audio_pacers[s].audio_start_time)
    /\ \A st \in AtSink : TaskOf(st).ts /= None

\* a clear() took a frame out of the queue, and the first frame enqueued
\* after it is at the sink while the next one waits in the queue
C31_Witness ==
    /\ \E i \in 1..Len(frames) : frames[i].cut
    /\ \E st \in AtSink : TaskOf(st).chunk.fresh /\ TaskOf(st).ts /= None
    /\ Registered("A") /\ _audio_pacers["A"]._running
    /\ _audio_pacers["A"].buffer /= <<>>

\* the send_message calls made for session s
SendsFor(snd, s) == {k \in 1..Len(snd) : snd[k].by = s}

C32_Step ==
    \A i \in 1..Len(fcLog) :
        LET call  == fcLog[i]
            after == fcLog'[i]
        IN call.item.text = "array" =>
           /\ (call.pc = "on_command" /\ after.pc = "failed") =>
                 /\ after.handed = call.handed
                 /\ after.handed = SubSeq(call.item.cmds, 1, Len(call.handed))
                 /\ Cardinality(SendsFor(sends', call.sid)) =
                        Cardinality(SendsFor(sends, call.sid))
                        + (IF stored[call.sid] = 0 THEN 0 ELSE 1)
           /\ call.pc = "failed" =>
                 /\ after.pc = "failed"
                 /\ after.handed = call.handed

\* C32: when on_command raises on the k-th command of a bundled "output"
\* call, it has been called with commands 1..k of the array, in order,
\* and is called with none of the others afterwards; and one error
\* message is sent for the whole event (to the connection registered for
\* the session, if there is one), which puts at most one
\* conversation.item.create on the wire
C32_RaiseStopsTheBundle ==
    /\ [][C32_Step]_vars
    /\ [](\A k \in 1..Len(sends) :
             Cardinality({j \in 1..Len(wire) :
                             /\ wire[j].by = k
                             /\ wire[j].type = "conversation.item.create"})
                 <= 1)

\* on_command raised on the first of two bundled commands: the second was
\* never handed over, and the one error message has been written
C32_Witness ==
    \E i \in 1..Len(fcLog) :
        /\ fcLog[i].item.text = "array"
        /\ Len(fcLog[i].item.cmds) = 2
        /\ fcLog[i].pc = "failed"
        /\ fcLog[i].handed = <<fcLog[i].item.cmds[1]>>
        /\ Cardinality(SendsFor(sends, fcLog[i].sid)) = 1
        /\ sends[fcLog[i].send].pc = "returned"
        /\ mhl[fcLog[i].sid] = "recv"

\* C33: every conversation.item.create event on the wire carries role
\* "user", whatever role the message of the send_message call had: a
\* message's own role is not written
C33_RoleAlwaysUser ==
    \A j \in 1..Len(wire) :
        /\ wire[j].type = "conversation.item.create" => wire[j].role = "user"
        /\ wire[j].type = "response.create" => wire[j].role = ""

\* a message with role "assistant" was sent and its event is on the wire
C33_Witness ==
    \E k \in 1..Len(sends), j \in 1..Len(wire) :
        /\ sends[k].by = "app"
        /\ sends[k].role = "assistant"
        /\ sends[k].pc = "returned"
        /\ wire[j].by = k
        /\ wire[j].type = "conversation.item.create"

====
